---- MODULE Spec2Model ----
(***************************************************************************)
(* GoogleCustomSearchPDFDownloader (pdf_search_download_api.py).           *)
(*                                                                         *)
(* search_pdfs  : paginated search, filter on ".pdf", early stop, pacing,  *)
(*                save of the links record.                                *)
(* download_pdfs: sequential per-URL fetch, validation, write to           *)
(*                document_<i>.pdf, log, pacing.                           *)
(*                                                                         *)
(* Strings are sequences of one-character strings, so that strip(),        *)
(* lower() and endswith() are computed and not assumed.                    *)
(***************************************************************************)
EXTENDS Integers, Sequences, FiniteSets, TLC

VARIABLES
    \* ---- search_pdfs ----
    spc,           \* position in search_pdfs: "idle", "loop", "done"
    query,         \* the parameter, reassigned to query.strip() at line 76
    num_results,   \* the parameter
    num_requests,  \* line 79
    i,             \* loop variable of line 81
    pdf_urls,      \* line 78
    requests,      \* the GETs issued at line 95, in order (their params)
    page_result,   \* how the last GET of line 95 ended
    served,        \* every item of every page that was parsed, in order
    scanned,       \* number of items the loop of line 112 has visited
    sleeps,        \* number of time.sleep(1) calls of line 128
    saved,         \* the calls of save_links_to_file, in order
    returned,      \* the value search_pdfs returned
    \* ---- download_pdfs ----
    dpc,           \* position in download_pdfs: "idle", "get", "stream",
                   \* "verify", "sleep", "done", "raised"
    urls,          \* the parameter
    dir_exists,    \* output_dir exists
    dir0,          \* the files of output_dir when download_pdfs was called
    files,         \* the files of output_dir: position k |-> size of document_k.pdf
    pos,           \* the i of enumerate(urls, 1), line 156
    response,      \* the response of line 171 (status code and headers)
    gets,          \* the GETs issued at line 171, in order
    answered,      \* for each GET, whether it returned a response
    log,           \* the lines written to the download log, in order
    dsleeps,       \* number of time.sleep(1) calls of line 224
    \* ---- __init__ and main ----
    mpc,           \* position in main: "start", "query", "search",
                   \* "download", "done"
    api_key,       \* self.api_key, line 23
    cx_id,         \* self.cx_id, line 24
    entered,       \* what the user typed at the prompt of line 239
    out            \* what main has printed, in order

svars == <<spc, query, num_results, num_requests, i, pdf_urls, requests,
           page_result, served, scanned, sleeps, saved, returned>>

dvars == <<dpc, urls, dir_exists, dir0, files, pos, response, gets, answered,
           log, dsleeps>>

mvars == <<mpc, api_key, cx_id, entered, out>>

vars == <<svars, dvars, mvars>>

(***************************************************************************)
(* Bounds of the model.                                                    *)
(***************************************************************************)
MaxItems == 2      \* items of an ordinary result page
MaxServed == 3     \* the API stops serving items once it has served this many
MaxUrls == 2       \* length of the list handed to download_pdfs

(***************************************************************************)
(* Strings.                                                                *)
(***************************************************************************)
Whitespace == {" ", "\t"}

UpperToLower == [c \in {"A", "B", "D", "F", "P"} |->
                   CASE c = "A" -> "a" [] c = "B" -> "b" [] c = "D" -> "d"
                     [] c = "F" -> "f" [] c = "P" -> "p"]

\* str.lower()
Lower(s) == [k \in 1..Len(s) |->
               IF s[k] \in DOMAIN UpperToLower THEN UpperToLower[s[k]] ELSE s[k]]

\* str.endswith(suffix)
EndsWith(s, suffix) ==
    /\ Len(s) >= Len(suffix)
    /\ SubSeq(s, Len(s) - Len(suffix) + 1, Len(s)) = suffix

RECURSIVE LStrip(_)
LStrip(s) == IF s # <<>> /\ Head(s) \in Whitespace THEN LStrip(Tail(s)) ELSE s

RECURSIVE RStrip(_)
RStrip(s) == IF s # <<>> /\ s[Len(s)] \in Whitespace
             THEN RStrip(SubSeq(s, 1, Len(s) - 1)) ELSE s

\* str.strip()
Strip(s) == RStrip(LStrip(s))

\* needle in haystack
Contains(haystack, needle) ==
    \E k \in 1..(Len(haystack) - Len(needle) + 1) :
        SubSeq(haystack, k, k + Len(needle) - 1) = needle

PdfExt == <<".", "p", "d", "f">>

(***************************************************************************)
(* Inputs of search_pdfs and the answers of the search API.                *)
(***************************************************************************)
Queries == { <<>>, <<" ">>, <<" ", "\t">>, <<"q">>, <<" ", "q", " ">> }

Counts == {0, 1, 2, 3, 15, 101}

LinkLowerPdf == <<"a", ".", "p", "d", "f">>
LinkUpperPdf == <<"B", ".", "P", "D", "F">>
LinkPdfInside == <<"a", ".", "p", "d", "f", "x">>

ItemLower == [link |-> LinkLowerPdf]
ItemUpper == [link |-> LinkUpperPdf, title |-> <<"t">>]
ItemOther == [link |-> LinkPdfInside]
ItemNoLink == [title |-> <<"t">>]

Items == {ItemLower, ItemUpper, ItemOther, ItemNoLink}

RECURSIVE SeqsUpTo(_, _)
SeqsUpTo(S, n) ==
    IF n = 0 THEN {<<>>}
    ELSE LET shorter == SeqsUpTo(S, n - 1)
         IN shorter \cup {Append(s, x) : s \in shorter, x \in S}

\* a page that alone satisfies a request for 15 links
BulkPage == [k \in 1..15 |-> ItemLower]

Pages == SeqsUpTo(Items, MaxItems) \cup {BulkPage}

\* response.json() of a 200 answer: "items" may be absent
JsonBodies == {[kind |-> "customsearch#search"]}
                \cup {[kind |-> "customsearch#search", items |-> p] : p \in Pages}

StatusCodes == {200, 400, 403, 500}

\* What an answer with an error status carries: nothing the code reads
ErrorBodies == {[kind |-> "error"], [kind |-> "error", items |-> <<ItemLower>>]}

\* What requests.get(...) of line 95 does: it raises a RequestException, or it
\* returns a response with a status code and a body that decodes as JSON or not.
Responses ==
    {[raises |-> TRUE, status_code |-> 0, decodes |-> FALSE,
      json |-> [kind |-> "none"]]}
    \cup [raises : {FALSE}, status_code : StatusCodes \ {200}, decodes : BOOLEAN,
          json : ErrorBodies]
    \cup {[raises |-> FALSE, status_code |-> 200, decodes |-> FALSE,
           json |-> [kind |-> "none"]]}
    \cup [raises : {FALSE}, status_code : {200}, decodes : {TRUE},
          json : JsonBodies]

NoResult == [raises |-> FALSE, status_code |-> 0, decodes |-> FALSE]

Summary(resp) == [raises |-> resp.raises, status_code |-> resp.status_code,
                  decodes |-> resp.decodes]

(***************************************************************************)
(* search_pdfs.                                                            *)
(***************************************************************************)
\* line 71, dropping the whitespace test
IsBlankNoStrip(q) == q = <<>>

\* line 71: not query or query.strip() == ""
IsBlank(q) == q = <<>> \/ Strip(q) = <<>>

\* line 79 without the cap
NumRequestsUncapped(n) == (n + 9) \div 10

\* line 79: min(10, (num_results + 9) // 10)
NumRequests(n) ==
    LET needed == (n + 9) \div 10 IN IF needed < 10 THEN needed ELSE 10

\* line 82 without the page offset
StartIndexFirstPage(k) == 1

\* line 82 with 0-based offsets
StartIndexZeroBased(k) == k * 10

\* line 82
StartIndex(k) == k * 10 + 1

FiletypeToken == <<" ", "f", "i", "l", "e", "t", "y", "p", "e", ":", "p", "d", "f">>

\* lines 85-92 (key and cx are the same for every request)
Params(q, k) == [q |-> q \o FiletypeToken, start |-> StartIndex(k),
                 fileType |-> "pdf", alt |-> "json"]

\* lines 94-125 with the 403 branch missing and no status check after it
PageOutcomeNo403(resp) ==
    IF resp.raises THEN "break"
    ELSE IF resp.status_code = 400 THEN "break"
    ELSE IF ~resp.decodes THEN "break"
    ELSE "scan"

\* lines 94-125: which way one answer sends the loop body
PageOutcome(resp) ==
    IF resp.raises THEN "break"                  \* except RequestException
    ELSE IF resp.status_code = 400 THEN "break"
    ELSE IF resp.status_code = 403 THEN "break"
    ELSE IF resp.status_code # 200 THEN "break"
    ELSE IF ~resp.decodes THEN "break"           \* except JSONDecodeError
    ELSE "scan"

\* line 111
ItemsOf(json) == IF "items" \in DOMAIN json THEN json.items ELSE <<>>

\* line 113 without the endswith test
IsPdfItemAnyLink(item) == "link" \in DOMAIN item

\* line 113
IsPdfItem(item) ==
    "link" \in DOMAIN item /\ EndsWith(Lower(item.link), PdfExt)

\* lines 112-118 with the test of line 115 made once, after the page
RECURSIVE ScanItemsCheckAfterPage(_, _, _)
ScanItemsCheckAfterPage(items, found, n) ==
    IF items = <<>>
    THEN [urls |-> found, seen |-> 0, reached |-> found # <<>> /\ Len(found) >= n]
    ELSE LET rest == ScanItemsCheckAfterPage(Tail(items),
                        IF IsPdfItem(Head(items))
                        THEN Append(found, Head(items).link) ELSE found, n)
         IN [rest EXCEPT !.seen = @ + 1]

\* lines 112-118 with a link already collected skipped
RECURSIVE ScanItemsDedup(_, _, _)
ScanItemsDedup(items, found, n) ==
    IF items = <<>> THEN [urls |-> found, seen |-> 0, reached |-> FALSE]
    ELSE IF IsPdfItem(Head(items))
            /\ \A k \in 1..Len(found) : found[k] # Head(items).link
         THEN LET grown == Append(found, Head(items).link)
              IN IF Len(grown) >= n
                 THEN [urls |-> grown, seen |-> 1, reached |-> TRUE]
                 ELSE LET rest == ScanItemsDedup(Tail(items), grown, n)
                      IN [rest EXCEPT !.seen = @ + 1]
         ELSE LET rest == ScanItemsDedup(Tail(items), found, n)
              IN [rest EXCEPT !.seen = @ + 1]

\* lines 112-118 without the return of line 118
RECURSIVE ScanItemsNoStop(_, _, _)
ScanItemsNoStop(items, found, n) ==
    IF items = <<>> THEN [urls |-> found, seen |-> 0, reached |-> FALSE]
    ELSE LET rest == ScanItemsNoStop(Tail(items),
                        IF IsPdfItem(Head(items))
                        THEN Append(found, Head(items).link) ELSE found, n)
         IN [rest EXCEPT !.seen = @ + 1]

\* lines 112-118: the scan of one page; reached = the return of line 118 is taken
RECURSIVE ScanItems(_, _, _)
ScanItems(items, found, n) ==
    IF items = <<>> THEN [urls |-> found, seen |-> 0, reached |-> FALSE]
    ELSE IF IsPdfItem(Head(items))
         THEN LET grown == Append(found, Head(items).link)
              IN IF Len(grown) >= n
                 THEN [urls |-> grown, seen |-> 1, reached |-> TRUE]
                 ELSE LET rest == ScanItems(Tail(items), grown, n)
                      IN [rest EXCEPT !.seen = @ + 1]
         ELSE LET rest == ScanItems(Tail(items), found, n)
              IN [rest EXCEPT !.seen = @ + 1]

\* lines 31-57: one record per call
save_links_to_file(record, found, q) == Append(record, [urls |-> found, query |-> q])

\* lines 131-132 without the test
SaveIfAnyAlways(record, found, q) == save_links_to_file(record, found, q)

\* lines 131-132
SaveIfAny(record, found, q) ==
    IF found # <<>> THEN save_links_to_file(record, found, q) ELSE record

\* lines 130-134: the code after the loop, reached by break or by exhaustion
AfterLoop ==
    /\ saved' = SaveIfAny(saved, pdf_urls, query)
    /\ returned' = pdf_urls
    /\ spc' = "done"

SInit ==
    /\ spc = "idle"
    /\ query = <<>>
    /\ num_results = 0
    /\ num_requests = 0
    /\ i = 0
    /\ pdf_urls = <<>>
    /\ requests = <<>>
    /\ page_result = NoResult
    /\ served = <<>>
    /\ scanned = 0
    /\ sleeps = 0
    /\ saved = <<>>
    /\ returned = <<>>

\* lines 59-79: search_pdfs(q, n), up to the loop
SearchEntry(q, n) ==
    /\ spc = "idle"
    /\ num_results' = n
    /\ IF IsBlank(q)
       THEN /\ query' = q
            /\ returned' = <<>>
            /\ spc' = "done"
            /\ UNCHANGED <<num_requests, pdf_urls>>
       ELSE /\ query' = Strip(q)
            /\ pdf_urls' = <<>>
            /\ num_requests' = NumRequests(n)
            /\ spc' = "loop"
            /\ UNCHANGED returned
    /\ UNCHANGED <<i, requests, page_result, served, scanned, sleeps, saved>>

\* a call of search_pdfs on a downloader that is not in use
SearchCall ==
    /\ UNCHANGED <<dvars, mvars>>
    /\ dpc = "idle"
    /\ \E q \in Queries, n \in Counts : SearchEntry(q, n)

\* lines 81-106, 120-125, 130-134: an iteration that ends in break
SearchPageBreak ==
    /\ UNCHANGED <<dvars, mvars>>
    /\ spc = "loop"
    /\ i < num_requests
    /\ \E resp \in Responses :
         /\ PageOutcome(resp) = "break"
         /\ requests' = Append(requests, Params(query, i))
         /\ page_result' = Summary(resp)
    /\ AfterLoop
    /\ UNCHANGED <<query, num_results, num_requests, i, pdf_urls, served,
                   scanned, sleeps>>

\* lines 81-118, 127-128: an iteration whose answer is parsed and scanned
SearchPageScan ==
    /\ UNCHANGED <<dvars, mvars>>
    /\ spc = "loop"
    /\ i < num_requests
    /\ \E resp \in Responses :
         /\ PageOutcome(resp) = "scan"
         /\ ItemsOf(resp.json) = <<>> \/ Len(served) < MaxServed
         /\ requests' = Append(requests, Params(query, i))
         /\ page_result' = Summary(resp)
         /\ LET scan == ScanItems(ItemsOf(resp.json), pdf_urls, num_results)
            IN /\ served' = served \o ItemsOf(resp.json)
               /\ scanned' = scanned + scan.seen
               /\ pdf_urls' = scan.urls
               /\ IF scan.reached
                  THEN \* lines 115-118
                       /\ saved' = save_links_to_file(saved, scan.urls, query)
                       /\ returned' = SubSeq(scan.urls, 1, num_results)
                       /\ spc' = "done"
                       /\ UNCHANGED <<i, sleeps>>
                  ELSE \* line 128, then the next value of i
                       /\ sleeps' = sleeps + 1
                       /\ i' = i + 1
                       /\ UNCHANGED <<saved, returned, spc>>
    /\ UNCHANGED <<query, num_results, num_requests>>

\* lines 81, 130-134: range(num_requests) is exhausted
SearchLoopEnd ==
    /\ UNCHANGED <<dvars, mvars>>
    /\ spc = "loop"
    /\ i >= num_requests
    /\ AfterLoop
    /\ UNCHANGED <<query, num_results, num_requests, i, pdf_urls, requests,
                   page_result, served, scanned, sleeps>>

SNext ==
    \/ SearchCall
    \/ SearchPageBreak
    \/ SearchPageScan
    \/ SearchLoopEnd

(***************************************************************************)
(* Inputs of download_pdfs and the answers of the download servers.        *)
(***************************************************************************)
UrlLists == SeqsUpTo({LinkUpperPdf, LinkPdfInside}, MaxUrls)

\* output_dir at the call: absent, or holding a document_1.pdf of an earlier run
InitialDirs == {[exists |-> FALSE, files |-> <<>>],
                [exists |-> TRUE, files |-> <<9>>]}

ApplicationPdf == <<"a", "p", "p", "l", "i", "c", "a", "t", "i", "o", "n", "/", "p", "d", "f">>
ApplicationXPdf == <<"a", "p", "p", "l", "i", "c", "a", "t", "i", "o", "n", "/", "x", "-", "p", "d", "f">>
ApplicationOctetStream == <<"a", "p", "p", "l", "i", "c", "a", "t", "i", "o", "n", "/", "o", "c", "t", "e", "t", "-", "s", "t", "r", "e", "a", "m">>

\* line 182: the allow-list
PdfTypes == {ApplicationPdf, ApplicationXPdf, ApplicationOctetStream}

TextHtml == <<"t", "e", "x", "t", "/", "h", "t", "m", "l">>
ApplicationPdfMixedCase == <<"A", "p", "p", "l", "i", "c", "a", "t", "i", "o", "n", "/", "P", "D", "F">>
OctetStreamWithParameter == ApplicationOctetStream \o <<";", " ", "x">>

\* response.headers
HeaderSets == {
    [server |-> "s"],
    [content_type |-> TextHtml],
    [content_type |-> ApplicationPdfMixedCase],
    [content_type |-> ApplicationXPdf],
    [content_type |-> OctetStreamWithParameter, content_length |-> <<"7">>],
    [content_type |-> ApplicationPdf, content_length |-> <<"x">>] }

\* response.headers of an answer with an error status
ErrorHeaderSets == {[content_type |-> TextHtml],
                    [content_type |-> ApplicationPdfMixedCase]}

DownloadStatusCodes == {200, 404}

\* What requests.get(...) of line 171 does: it raises, or it returns a response
GetExceptions == {"Timeout", "ConnectionError", "TooManyRedirects"}

GetResults ==
    [raises : GetExceptions, status_code : {0}, headers : {[server |-> "s"]}]
    \cup [raises : {"none"}, status_code : DownloadStatusCodes \ {200},
          headers : ErrorHeaderSets]
    \cup [raises : {"none"}, status_code : {200}, headers : HeaderSets]

\* What response.iter_content(chunk_size=1024) of line 194 does: it yields
\* chunks (their lengths) and then ends or raises
StreamExceptions == {"ConnectionError", "ChunkedEncodingError"}

Streams == [chunks : {<<>>, <<7>>}, raises : {"none"} \cup StreamExceptions]

NoResponse == [status_code |-> 0, headers |-> [server |-> "s"]]

(***************************************************************************)
(* download_pdfs.                                                          *)
(***************************************************************************)
Digits == {"0", "1", "2", "3", "4", "5", "6", "7", "8", "9"}

\* int(content_length) of line 185 succeeds
IsInt(s) == s # <<>> /\ \A k \in 1..Len(s) : s[k] \in Digits

\* line 178: response.headers.get('content-type', '').lower()
ContentType(headers) ==
    IF "content_type" \in DOMAIN headers THEN Lower(headers.content_type) ELSE <<>>

\* line 182
IsPdfType(content_type) == \E t \in PdfTypes : Contains(content_type, t)

\* line 184 without the test
AcceptedAlways(url, headers) == TRUE

\* line 184
Accepted(url, headers) ==
    IsPdfType(ContentType(headers)) \/ EndsWith(Lower(url), PdfExt)

\* line 185 raises ValueError
BadLength(headers) ==
    "content_length" \in DOMAIN headers /\ ~IsInt(headers.content_length)

\* lines 213-221 without the handler of line 219
HandlerNoGeneric(exc) ==
    CASE exc = "Timeout" -> "timeout"
      [] exc = "ConnectionError" -> "connection"
      [] OTHER -> "uncaught"

\* lines 213-221: the except clause that takes an exception of the try block
Handler(exc) ==
    CASE exc = "Timeout" -> "timeout"            \* line 213
      [] exc = "ConnectionError" -> "connection" \* line 216
      [] OTHER -> "other"                        \* line 219: except Exception

\* lines 213-221: the handler's line in the log, then line 224 is next;
\* an exception no clause takes leaves download_pdfs
Caught(exc, lines) ==
    IF Handler(exc) = "uncaught"
    THEN /\ log' = log \o lines
         /\ dpc' = "raised"
    ELSE /\ log' = log \o lines \o
                   <<[i |-> pos, line |-> "error", class |-> Handler(exc),
                      url |-> urls[pos]]>>
         /\ dpc' = "sleep"

RECURSIVE Sum(_)
Sum(seq) == IF seq = <<>> THEN 0 ELSE Head(seq) + Sum(Tail(seq))

\* open(filename, 'wb'): created or truncated
Opened(fs, k) == [j \in DOMAIN fs \cup {k} |-> IF j = k THEN 0 ELSE fs[j]]

\* pdf_file.write(data) for every chunk received, then the file is closed
Written(fs, k, chunks) == [fs EXCEPT ![k] = @ + Sum(chunks)]

\* os.remove(filename)
Removed(fs, k) == [j \in DOMAIN fs \ {k} |-> fs[j]]

DInit ==
    /\ dpc = "idle"
    /\ urls = <<>>
    /\ dir_exists = FALSE
    /\ dir0 = <<>>
    /\ files = <<>>
    /\ pos = 0
    /\ response = NoResponse
    /\ gets = <<>>
    /\ answered = <<>>
    /\ log = <<>>
    /\ dsleeps = 0

\* lines 136-156: download_pdfs(us) on an output_dir in state d, up to the loop
DownloadEntry(us, d) ==
    /\ dpc = "idle"
    /\ urls' = us
    /\ dir_exists' = TRUE                 \* lines 144-145
    /\ dir0' = d.files
    /\ files' = d.files
    /\ pos' = 1
    /\ dpc' = IF us = <<>> THEN "done" ELSE "get"
    /\ UNCHANGED <<response, gets, answered, log, dsleeps>>

\* a call of download_pdfs on a downloader that is not in use
DownloadCall ==
    /\ UNCHANGED <<svars, mvars>>
    /\ spc = "idle"
    /\ \E us \in UrlLists, d \in InitialDirs : DownloadEntry(us, d)

AttemptLine == [i |-> pos, line |-> "attempt", url |-> urls[pos]]

\* lines 174-175 without line 175
ResponseLinesStatusOnly(r) ==
    <<[i |-> pos, line |-> "status", status_code |-> r.status_code]>>

\* lines 174-175
ResponseLines(r) ==
    <<[i |-> pos, line |-> "status", status_code |-> r.status_code],
      [i |-> pos, line |-> "headers", headers |-> r.headers]>>

\* lines 157-171, 213-221: the GET raises
DownloadGetRaises ==
    /\ UNCHANGED <<svars, mvars>>
    /\ dpc = "get"
    /\ \E r \in GetResults :
         /\ r.raises # "none"
         /\ gets' = Append(gets, urls[pos])
         /\ answered' = Append(answered, FALSE)
         /\ Caught(r.raises, <<AttemptLine>>)
    /\ UNCHANGED <<urls, dir_exists, dir0, files, pos, response, dsleeps>>

\* lines 157-177, 209-211: a status other than 200
DownloadHttpError ==
    /\ UNCHANGED <<svars, mvars>>
    /\ dpc = "get"
    /\ \E r \in GetResults :
         /\ r.raises = "none"
         /\ r.status_code # 200
         /\ gets' = Append(gets, urls[pos])
         /\ answered' = Append(answered, TRUE)
         /\ response' = [status_code |-> r.status_code, headers |-> r.headers]
         /\ log' = log \o <<AttemptLine>> \o ResponseLines(r) \o
                   <<[i |-> pos, line |-> "http_error", url |-> urls[pos],
                      status_code |-> r.status_code]>>
         /\ dpc' = "sleep"
    /\ UNCHANGED <<urls, dir_exists, dir0, files, pos, dsleeps>>

\* lines 157-184, 206-208: status 200, neither a PDF type nor a .pdf URL
DownloadWrongType ==
    /\ UNCHANGED <<svars, mvars>>
    /\ dpc = "get"
    /\ \E r \in GetResults :
         /\ r.raises = "none"
         /\ r.status_code = 200
         /\ ~Accepted(urls[pos], r.headers)
         /\ gets' = Append(gets, urls[pos])
         /\ answered' = Append(answered, TRUE)
         /\ response' = [status_code |-> r.status_code, headers |-> r.headers]
         /\ log' = log \o <<AttemptLine>> \o ResponseLines(r) \o
                   <<[i |-> pos, line |-> "wrong_type", url |-> urls[pos],
                      content_type |-> ContentType(r.headers)]>>
         /\ dpc' = "sleep"
    /\ UNCHANGED <<urls, dir_exists, dir0, files, pos, dsleeps>>

\* lines 157-193: status 200 and accepted; the output file is opened, unless
\* int(content_length) raises first
DownloadOpen ==
    /\ UNCHANGED <<svars, mvars>>
    /\ dpc = "get"
    /\ \E r \in GetResults :
         /\ r.raises = "none"
         /\ r.status_code = 200
         /\ Accepted(urls[pos], r.headers)
         /\ gets' = Append(gets, urls[pos])
         /\ answered' = Append(answered, TRUE)
         /\ response' = [status_code |-> r.status_code, headers |-> r.headers]
         /\ IF BadLength(r.headers)
            THEN /\ Caught("ValueError", <<AttemptLine>> \o ResponseLines(r))
                 /\ UNCHANGED files
            ELSE /\ log' = log \o <<AttemptLine>> \o ResponseLines(r)
                 /\ files' = Opened(files, pos)
                 /\ dpc' = "stream"
    /\ UNCHANGED <<urls, dir_exists, dir0, pos, dsleeps>>

\* lines 194-196, 213-221: the body is written to the file, whole or up to
\* the exception that ends the stream
DownloadStream ==
    /\ UNCHANGED <<svars, mvars>>
    /\ dpc = "stream"
    /\ \E st \in Streams :
         /\ files' = Written(files, pos, st.chunks)
         /\ IF st.raises = "none"
            THEN /\ dpc' = "verify"
                 /\ UNCHANGED log
            ELSE Caught(st.raises, <<>>)
    /\ UNCHANGED <<urls, dir_exists, dir0, pos, response, gets, answered,
                   dsleeps>>

\* lines 198-205
DownloadVerify ==
    /\ UNCHANGED <<svars, mvars>>
    /\ dpc = "verify"
    /\ IF files[pos] > 0
       THEN /\ log' = Append(log, [i |-> pos, line |-> "success",
                                   filename |-> pos])
            /\ UNCHANGED files
       ELSE /\ log' = Append(log, [i |-> pos, line |-> "empty"])
            /\ files' = Removed(files, pos)
    /\ dpc' = "sleep"
    /\ UNCHANGED <<urls, dir_exists, dir0, pos, response, gets, answered,
                   dsleeps>>

\* line 224 run only when another URL follows
DownloadSleepOnlyBetween ==
    /\ UNCHANGED <<svars, mvars>>
    /\ dpc = "sleep"
    /\ dsleeps' = IF pos < Len(urls) THEN dsleeps + 1 ELSE dsleeps
    /\ pos' = pos + 1
    /\ dpc' = IF pos < Len(urls) THEN "get" ELSE "done"
    /\ UNCHANGED <<urls, dir_exists, dir0, files, response, gets, answered,
                   log>>

\* line 224, then the next URL of line 156 or line 226
DownloadSleep ==
    /\ UNCHANGED <<svars, mvars>>
    /\ dpc = "sleep"
    /\ dsleeps' = dsleeps + 1
    /\ pos' = pos + 1
    /\ dpc' = IF pos < Len(urls) THEN "get" ELSE "done"
    /\ UNCHANGED <<urls, dir_exists, dir0, files, response, gets, answered,
                   log>>

DNext ==
    \/ DownloadCall
    \/ DownloadGetRaises
    \/ DownloadHttpError
    \/ DownloadWrongType
    \/ DownloadOpen
    \/ DownloadStream
    \/ DownloadVerify
    \/ DownloadSleep

(***************************************************************************)
(* __init__ and main.                                                      *)
(***************************************************************************)
\* os.getenv: the variable is unset (None), or set to a string
Unset == [present |-> FALSE, value |-> <<>>]

EnvValues == {Unset, [present |-> TRUE, value |-> <<>>],
              [present |-> TRUE, value |-> <<"k">>]}

\* what the user types at line 239
Entries == { <<>>, <<"a">>, <<"0">>, <<"2">>, <<"-", "5">>, <<" ", "1", "5">>,
             <<"1", "5", "0">>, <<"1", "-">> }

DigitValue == [c \in Digits |->
    CASE c = "0" -> 0 [] c = "1" -> 1 [] c = "2" -> 2 [] c = "3" -> 3
      [] c = "4" -> 4 [] c = "5" -> 5 [] c = "6" -> 6 [] c = "7" -> 7
      [] c = "8" -> 8 [] c = "9" -> 9]

RECURSIVE DigitsValue(_)
DigitsValue(s) ==
    IF s = <<>> THEN 0
    ELSE 10 * DigitsValue(SubSeq(s, 1, Len(s) - 1)) + DigitValue[s[Len(s)]]

\* int(text) of line 242: blanks around, an optional sign, digits;
\* ok = FALSE is the ValueError
ParseInt(text) ==
    LET t == Strip(text)
        signed == t # <<>> /\ Head(t) \in {"-", "+"}
        digits == IF signed THEN Tail(t) ELSE t
    IN IF IsInt(digits)
       THEN [ok |-> TRUE,
             value |-> IF signed /\ Head(t) = "-"
                       THEN 0 - DigitsValue(digits) ELSE DigitsValue(digits)]
       ELSE [ok |-> FALSE, value |-> 0]

\* lines 241-244
TargetCount(text) ==
    LET n == ParseInt(text)
    IN IF n.ok THEN (IF n.value < 100 THEN n.value ELSE 100) ELSE 10

\* line 26 with the test of cx_id missing
CredentialsMissingKeyOnly(key, cx) == ~key.present \/ key.value = <<>>

\* line 26: not self.api_key or not self.cx_id
CredentialsMissing(key, cx) ==
    \/ ~key.present \/ key.value = <<>>
    \/ ~cx.present \/ cx.value = <<>>

\* what main prints: line 265 with the text of line 27, lines 266-267,
\* line 236, line 251, line 254 (without the number), line 262
MsgCredentials == "Error: API key and CX ID are required. Please set them in .env file or provide them directly."
MsgEnvHint == "Please make sure you have created a .env file with your API credentials."
MsgEmptyQuery == "Error: Search query cannot be empty"
MsgNoResults == "No PDF results found."
MsgFound == "Found PDF results."
MsgSavedOnly == "PDF links have been saved to a text file. You can download them later."

MInit ==
    /\ mpc = "start"
    /\ api_key = Unset
    /\ cx_id = Unset
    /\ entered = <<>>
    /\ out = <<>>

\* lines 229-231 with lines 11-29, and lines 264-267 when __init__ raises
MainConstruct ==
    /\ mpc = "start"
    /\ \E key \in EnvValues, cx \in EnvValues :
         /\ api_key' = key
         /\ cx_id' = cx
         /\ IF CredentialsMissing(key, cx)
            THEN /\ out' = out \o <<MsgCredentials, MsgEnvHint>>
                 /\ mpc' = "done"
            ELSE /\ mpc' = "query"
                 /\ UNCHANGED out
    /\ UNCHANGED <<svars, dvars, entered>>

\* lines 234-237 with an empty query
MainEmptyQuery ==
    /\ mpc = "query"
    /\ \E text \in Queries :
         /\ Strip(text) = <<>>
         /\ out' = Append(out, MsgEmptyQuery)
         /\ mpc' = "done"
    /\ UNCHANGED <<svars, dvars, api_key, cx_id, entered>>

\* lines 234-248: the query and the count are read, search_pdfs is called
MainSearch ==
    /\ mpc = "query"
    /\ \E text \in Queries, typed \in Entries :
         /\ Strip(text) # <<>>
         /\ entered' = typed
         /\ SearchEntry(Strip(text), TargetCount(typed))
    /\ mpc' = "search"
    /\ UNCHANGED <<dvars, api_key, cx_id, out>>

\* lines 250-252: search_pdfs returned nothing
MainNoResults ==
    /\ mpc = "search"
    /\ spc = "done"
    /\ returned = <<>>
    /\ out' = Append(out, MsgNoResults)
    /\ mpc' = "done"
    /\ UNCHANGED <<svars, dvars, api_key, cx_id, entered>>

\* lines 254-262: the user declines the download
MainDecline ==
    /\ mpc = "search"
    /\ spc = "done"
    /\ returned # <<>>
    /\ out' = out \o <<MsgFound, MsgSavedOnly>>
    /\ mpc' = "done"
    /\ UNCHANGED <<svars, dvars, api_key, cx_id, entered>>

\* lines 254-260: the user answers yes and download_pdfs is entered with the
\* list search_pdfs returned; main does nothing after that call but return
MainDownload ==
    /\ mpc = "search"
    /\ spc = "done"
    /\ returned # <<>>
    /\ Len(returned) <= MaxUrls
    /\ out' = Append(out, MsgFound)
    /\ \E d \in InitialDirs : DownloadEntry(returned, d)
    /\ mpc' = "download"
    /\ UNCHANGED <<svars, api_key, cx_id, entered>>

MNext ==
    \/ MainConstruct
    \/ MainEmptyQuery
    \/ MainSearch
    \/ SearchPageBreak
    \/ SearchPageScan
    \/ SearchLoopEnd
    \/ MainNoResults
    \/ MainDecline
    \/ MainDownload

Init == SInit /\ DInit /\ MInit

\* one invocation of search_pdfs
SearchSpec == Init /\ [][SNext]_vars

\* one invocation of download_pdfs
DownloadSpec == Init /\ [][DNext]_vars

Next == SNext \/ DNext

\* one invocation of search_pdfs or of download_pdfs
Spec == Init /\ [][Next]_vars

\* every network call returns or fails, and the interpreter goes on: a step
\* that can be taken is taken
FairSpec == Spec /\ WF_vars(Next)

\* one run of main, up to the point where it hands the list to download_pdfs
MainSpec == Init /\ [][MNext]_vars

(***************************************************************************)
(* Vocabulary of the properties, stated without the operators above.       *)
(***************************************************************************)
\* the link ends in ".pdf", in any letter case
EndsInPdf(link) ==
    /\ Len(link) >= 4
    /\ link[Len(link) - 3] = "."
    /\ link[Len(link) - 2] \in {"p", "P"}
    /\ link[Len(link) - 1] \in {"d", "D"}
    /\ link[Len(link)] \in {"f", "F"}

HasPdfLink(item) == "link" \in DOMAIN item /\ EndsInPdf(item.link)

\* the links ending in .pdf among the items, in their order
RECURSIVE PdfLinks(_)
PdfLinks(items) ==
    IF items = <<>> THEN <<>>
    ELSE IF HasPdfLink(Head(items))
         THEN <<Head(items).link>> \o PdfLinks(Tail(items))
         ELSE PdfLinks(Tail(items))

Prefix(s, n) == SubSeq(s, 1, IF n < Len(s) THEN n ELSE Len(s))

\* the query search_pdfs was called with was empty or all whitespace
BlankCall == spc = "done" /\ \A k \in 1..Len(query) : query[k] \in {" ", "\t"}

\* the last page request failed: transport failure, status other than 200,
\* or a body that is not JSON
PageFailed ==
    /\ requests # <<>>
    /\ \/ page_result.raises
       \/ page_result.status_code # 200
       \/ ~page_result.decodes

\* ceil(n / 10), n >= 0
CeilTenth(n) == CHOOSE k \in 0..n : 10 * k >= n /\ 10 * (k - 1) < n

Starts == [k \in 1..Len(requests) |-> requests[k].start]

OutcomeLines == {"success", "empty", "http_error", "wrong_type", "error"}

IsOutcome(entry) == entry.line \in OutcomeLines

\* the outcome lines of the download log, in order
Outcomes == SelectSeq(log, IsOutcome)

(***************************************************************************)
(* Properties of search_pdfs (SearchSpec).                                 *)
(***************************************************************************)
\* C1: for a requested count in 1..100, the list search_pdfs returns is never
\* longer than the count, whatever the pages hold and however they end.
C1_AtMostCount ==
    (spc = "done" /\ num_results \in 1..100) => Len(returned) <= num_results

\* C1 witness: the API had served more .pdf links than were asked for
C1_Witness ==
    /\ spc = "done"
    /\ num_results \in 2..100
    /\ Len(PdfLinks(served)) > num_results
    /\ Len(returned) = num_results

\* C4: when the request for page k fails (400, 403, other non-200, transport
\* failure, undecodable body), search_pdfs has returned, page k is the last
\* request issued, and the result is exactly the links of the pages before k.
C4_AbortKeepsAccumulated ==
    PageFailed =>
        /\ spc = "done"
        /\ Len(requests) = i + 1
        /\ returned = PdfLinks(served)
        /\ Len(returned) < num_results
        /\ i = 0 => returned = <<>>

\* C4 witness: HTTP 403 on the second page, after a first page with links
C4_Witness ==
    /\ spc = "done"
    /\ page_result.status_code = 403
    /\ i = 1
    /\ returned # <<>>

\* C5: once the count is reached the scan stops at the item that reached it
\* and no page is requested after it; the result is the first `count` .pdf
\* links in API order, duplicates kept.
C5_StopsAtCount ==
    (spc = "done" /\ num_results >= 1
        /\ Len(PdfLinks(served)) >= num_results) =>
        /\ returned = Prefix(PdfLinks(served), num_results)
        /\ scanned \in 1..Len(served)
        /\ HasPdfLink(served[scanned])
        /\ Len(PdfLinks(Prefix(served, scanned))) = num_results
        /\ Len(requests) = i + 1
        /\ ~PageFailed

\* C5 witness: the count is reached in the middle of a second page, with links
\* of the first page kept in front and duplicates in the result
C5_Witness ==
    /\ spc = "done"
    /\ num_results = 15
    /\ Len(returned) = 15
    /\ returned[1] = LinkUpperPdf
    /\ returned[2] = returned[3]
    /\ Len(requests) = 2
    /\ scanned < Len(served)

\* C6: a return with at least one URL has saved the links exactly once, a
\* return with none has saved nothing.
C6_SaveOnceIffNonEmpty ==
    /\ Len(saved) <= 1
    /\ spc = "done" => Len(saved) = (IF returned # <<>> THEN 1 ELSE 0)
    /\ spc # "done" => saved = <<>>

\* C6 witness: an early abort with partial results, saved once
C6_Witness ==
    /\ spc = "done"
    /\ PageFailed
    /\ page_result.raises
    /\ returned # <<>>
    /\ Len(saved) = 1

\* C7: no invocation issues more than 10 page requests.
C7_AtMostTenRequests == Len(requests) <= 10

\* C7 witness: a count above 100 that used all ten requests
C7_Witness ==
    /\ spc = "done"
    /\ num_results > 100
    /\ Len(requests) = 10

\* C8: every URL collected or returned ends in .pdf in any letter case, and
\* only links of the served items are collected.
C8_OnlyPdfLinks ==
    /\ \A k \in 1..Len(pdf_urls) : EndsInPdf(pdf_urls[k])
    /\ \A k \in 1..Len(returned) : EndsInPdf(returned[k])
    /\ pdf_urls = Prefix(PdfLinks(served), Len(pdf_urls))

\* C8 witness: an upper-case .PDF link returned, after an item without link
\* and an item with another link were scanned
C8_Witness ==
    /\ spc = "done"
    /\ returned = <<LinkUpperPdf>>
    /\ \E a, b \in 1..Len(served) :
         /\ a < scanned /\ b < scanned
         /\ "link" \notin DOMAIN served[a]
         /\ "link" \in DOMAIN served[b]

\* C9: with no failed page and the count not reached, exactly
\* min(10, ceil(count/10)) requests are issued, the k-th (from 0) with start
\* 10k+1; for count 15 the requests are start=1, start=11, or start=1 alone
\* when the first page yields the 15 links.
C9_RequestsAndOffsets ==
    /\ \A k \in 1..Len(requests) : requests[k].start = 10 * (k - 1) + 1
    /\ (spc = "done" /\ ~BlankCall /\ ~PageFailed
          /\ Len(returned) < num_results) =>
          Len(requests) = (IF CeilTenth(num_results) < 10
                           THEN CeilTenth(num_results) ELSE 10)
    /\ (spc = "done" /\ ~BlankCall /\ ~PageFailed /\ num_results = 15) =>
          \/ Starts = <<1, 11>>
          \/ Starts = <<1>> /\ Len(returned) = 15

\* C9 witness: count 15, not reached, two requests
C9_Witness ==
    /\ spc = "done"
    /\ num_results = 15
    /\ ~PageFailed
    /\ Len(returned) \in 1..14
    /\ Starts = <<1, 11>>

\* C10: for an empty or all-whitespace query search_pdfs returns the empty
\* list with no request, no pacing delay and no save.
C10_BlankQueryDoesNothing ==
    BlankCall =>
        /\ returned = <<>>
        /\ requests = <<>>
        /\ sleeps = 0
        /\ saved = <<>>

\* C10 witness: a whitespace-only query with a positive count
C10_Witness ==
    /\ BlankCall
    /\ query # <<>>
    /\ num_results > 0

\* C13: a pacing delay is made only between two page requests: when
\* search_pdfs returns, the delays number one less than the requests.
C13_DelayOnlyBetweenRequests ==
    spc = "done" =>
        sleeps = (IF requests = <<>> THEN 0 ELSE Len(requests) - 1)

\* C18: what is handed to save_links_to_file is what is returned.
C18_SavedIsReturned ==
    spc = "done" => \A k \in 1..Len(saved) : saved[k].urls = returned

\* C18 witness: the return of line 118, with items of the page left
C18_Witness ==
    /\ spc = "done"
    /\ num_results = 2
    /\ Len(returned) = 2
    /\ saved # <<>>
    /\ saved[1].urls = returned
    /\ scanned < Len(served)

(***************************************************************************)
(* Properties of download_pdfs (DownloadSpec).                             *)
(***************************************************************************)
\* C2: no per-URL result leaves the loop: download_pdfs ends with one outcome
\* per URL, in input order, and one GET per URL.
C2_OneOutcomePerUrl ==
    /\ dpc # "raised"
    /\ \A k \in 1..Len(Outcomes) : Outcomes[k].i = k
    /\ dpc \in {"get", "stream", "verify"} => Len(Outcomes) = pos - 1
    /\ dpc = "sleep" => Len(Outcomes) = pos
    /\ dpc = "done" => Len(Outcomes) = Len(urls) /\ gets = urls

\* C2 witness: an exception of another class on the first URL, then a success
C2_Witness ==
    /\ dpc = "done"
    /\ Len(urls) = 2
    /\ Outcomes[1].line = "error"
    /\ Outcomes[1].class = "other"
    /\ Outcomes[2].line = "success"

\* C3: when download_pdfs returns, started on a directory with no output
\* file, document_k.pdf exists if and only if the outcome of URL k is
\* Success, and then it is not empty.
C3_FileIffSuccess ==
    (dpc = "done" /\ dir0 = <<>>) =>
        \A k \in 1..Len(urls) :
            /\ k \in DOMAIN files <=> Outcomes[k].line = "success"
            /\ k \in DOMAIN files => files[k] > 0

\* C11: a URL answered with a status other than 200, or with 200, a content
\* type outside the allow-list and no .pdf ending, ends Skipped in the same
\* step, and the output directory is as it was before the URL.
OutsideAllowList(headers) ==
    "content_type" \notin DOMAIN headers \/ headers.content_type = TextHtml

SkipStep ==
    /\ dpc = "get"
    /\ Len(log') >= Len(log) + 3
    /\ log'[Len(log) + 2].line = "status"
    /\ log'[Len(log) + 3].line = "headers"
    /\ \/ log'[Len(log) + 2].status_code # 200
       \/ /\ OutsideAllowList(log'[Len(log) + 3].headers)
          /\ ~EndsInPdf(urls[pos])

C11_SkipLeavesDirectory ==
    [][SkipStep =>
         /\ files' = files
         /\ dpc' = "sleep"
         /\ Len(log') = Len(log) + 4
         /\ log'[Len(log')].line =
               (IF log'[Len(log) + 2].status_code # 200
                THEN "http_error" ELSE "wrong_type")]_vars

\* C11 witness: a wrong-type skip at position 1, with the document_1.pdf of
\* an earlier run still there and untouched
C11_Witness ==
    /\ dpc = "sleep"
    /\ pos = 1
    /\ log[Len(log)].line = "wrong_type"
    /\ dir0 = <<9>>
    /\ files = <<9>>

\* C12: no output file of size zero is left behind by a URL that has been
\* processed, so none exists when download_pdfs returns.
C12_NoZeroByteFile ==
    dpc \in {"get", "done"} =>
        \A k \in DOMAIN files : k < pos => files[k] > 0

\* C14: one pacing delay follows each attempt, whatever its outcome; the
\* request for the next URL comes after it; the delays number len(urls) at
\* the end.
C14_OneDelayPerUrl ==
    /\ dpc \in {"get", "stream", "verify", "sleep"} => dsleeps = pos - 1
    /\ dpc = "get" => Len(gets) = dsleeps
    /\ dpc \in {"stream", "verify", "sleep"} => Len(gets) = dsleeps + 1
    /\ dpc = "done" => dsleeps = Len(urls) /\ Len(gets) = Len(urls)

\* C14 witness: two URLs, a timeout and an HTTP error, two delays
C14_Witness ==
    /\ dpc = "done"
    /\ Len(urls) = 2
    /\ dsleeps = 2
    /\ Outcomes[1].line = "error"
    /\ Outcomes[1].class = "timeout"
    /\ Outcomes[2].line = "http_error"

\* the log holds the status code and the headers of URL k
HasMetadata(entries, k) ==
    /\ \E a \in 1..Len(entries) : entries[a].i = k /\ entries[a].line = "status"
    /\ \E a \in 1..Len(entries) : entries[a].i = k /\ entries[a].line = "headers"

\* C15 as stated: every outcome in the log, the failures included, comes with
\* the status code and headers of its URL.
C15_MetadataOnEveryBranch ==
    \A k \in 1..Len(Outcomes) : HasMetadata(log, k)

\* C15 amended: the log only grows, in input order; every URL has its outcome
\* line before the next URL starts; the status code and headers are logged,
\* before the outcome, exactly when the GET returned a response.
C15_LogAmended ==
    [][/\ Len(log') >= Len(log)
       /\ SubSeq(log', 1, Len(log)) = log
       /\ \A a \in 1..(Len(log') - 1) : log'[a].i <= log'[a + 1].i
       /\ dpc' \in {"get", "done"} => Len(SelectSeq(log', IsOutcome)) = pos' - 1
       /\ \A k \in 1..Len(answered') :
             answered'[k] <=> HasMetadata(log', k)
       /\ \A a \in 1..Len(log') :
             IsOutcome(log'[a]) /\ answered'[log'[a].i] =>
                 HasMetadata(SubSeq(log', 1, a - 1), log'[a].i)]_vars

\* C15 witness: the first GET raised, the second failed while streaming
C15_Witness ==
    /\ dpc = "done"
    /\ answered = <<FALSE, TRUE>>
    /\ Outcomes[2].line = "error"
    /\ HasMetadata(log, 2)
    /\ ~HasMetadata(log, 1)

(***************************************************************************)
(* Properties of both loops (Spec, FairSpec).                              *)
(***************************************************************************)
\* C19: no retry: the page requests of one search have increasing, hence
\* distinct, start offsets; the GETs of one download are the input URLs, one
\* per position, in order.
C19_NoRetry ==
    /\ \A a, b \in 1..Len(requests) :
          a < b => requests[a].start < requests[b].start
    /\ Len(gets) <= Len(urls)
    /\ gets = SubSeq(urls, 1, Len(gets))
    /\ dpc = "get" => Len(gets) = pos - 1
    /\ dpc \in {"stream", "verify", "sleep"} => Len(gets) = pos
    /\ dpc = "done" => gets = urls

\* C19 witness: the same URL at both positions, the first attempt an empty
\* download: two GETs
C19_Witness ==
    /\ dpc = "done"
    /\ Len(urls) = 2
    /\ urls[1] = urls[2]
    /\ Outcomes[1].line = "empty"
    /\ Len(gets) = 2

\* what is left to do: the pages not yet requested, the URLs not yet
\* attempted and the steps left of the current attempt
SearchRank ==
    CASE spc = "idle" -> 12
      [] spc = "loop" -> num_requests - i + 1
      [] OTHER -> 0

DownloadRank ==
    CASE dpc = "idle" -> 4 * MaxUrls + 5
      [] dpc = "get" -> 4 * (Len(urls) - pos + 1)
      [] dpc = "stream" -> 4 * (Len(urls) - pos + 1) - 1
      [] dpc = "verify" -> 4 * (Len(urls) - pos + 1) - 2
      [] dpc = "sleep" -> 4 * (Len(urls) - pos + 1) - 3
      [] OTHER -> 0

Rank == SearchRank + DownloadRank

\* C20: as long as every step that can be taken is taken, both functions
\* return: a call that has not returned can always take a step, every step
\* lowers a natural number, and at the return at most 10 page requests, resp.
\* exactly len(urls) GETs, were issued.
C20_Terminates ==
    /\ [](/\ Rank \in Nat
          /\ spc = "loop" => ENABLED Next
          /\ dpc \notin {"idle", "done"} => ENABLED Next
          /\ spc = "done" => Len(requests) <= 10
          /\ dpc = "done" => Len(gets) = Len(urls))
    /\ [][Rank' < Rank]_vars

\* C20 witness: a search that returned after ten requests, none failed and
\* the count not reached
C20_Witness ==
    /\ spc = "done"
    /\ Len(requests) = 10
    /\ ~PageFailed
    /\ Len(returned) < num_results

(***************************************************************************)
(* C16: if the API key or the engine id is missing, main's run ends at     *)
(* construction: no search request and no download request is issued, the  *)
(* credentials message is printed once, and that message is printed on no  *)
(* other path (an empty query, a failed search).                           *)
(***************************************************************************)
HasValue(v) == v.present /\ Len(v.value) > 0

C16_MissingCredentialsSignalled ==
    mpc # "start" =>
        IF ~HasValue(api_key) \/ ~HasValue(cx_id)
        THEN /\ mpc = "done"
             /\ out = <<MsgCredentials, MsgEnvHint>>
             /\ requests = <<>>
             /\ gets = <<>>
             /\ spc = "idle"
             /\ dpc = "idle"
        ELSE \A k \in DOMAIN out : out[k] \notin {MsgCredentials, MsgEnvHint}

C16_Witness ==
    /\ mpc = "done"
    /\ HasValue(api_key)
    /\ cx_id = Unset
    /\ out = <<MsgCredentials, MsgEnvHint>>
    /\ requests = <<>>

(***************************************************************************)
(* C17: the count main hands to search_pdfs is in 1..100 for every integer *)
(* the user enters (above 100 it is 100, in range it is the entry), and is *)
(* 10 when the entry is not an integer.                                    *)
(***************************************************************************)
C17_CountClamped ==
    mpc \in {"search", "download", "done"} /\ spc # "idle" =>
        LET n == ParseInt(entered)
        IN IF n.ok
           THEN /\ num_results \in 1..100
                /\ n.value > 100 => num_results = 100
                /\ n.value \in 1..100 => num_results = n.value
           ELSE num_results = 10

====
